---------------------------- MODULE Spec2Model ----------------------------
(***************************************************************************)
(* A model of the multi-tenant retrieval-augmented chatbot:                *)
(*   vector_store.py     the tenant collection namer, the vector-store     *)
(*                       gateway and the knowledge-base mutation API       *)
(*   query_processor.py  the memoized retrieval handle and the query       *)
(*                       pipeline process_bot_query                        *)
(*   app.py              the public chat page: process_user_query, the     *)
(*                       session logger and the chat loop of main()        *)
(* The remote collaborators (Qdrant, the embedding model, the completion   *)
(* host, MongoDB) are modelled at the call sites of the code: each call    *)
(* either returns or raises, chosen by a fault the environment injects.    *)
(* Python exceptions are explicit: every function yields Return(v) or      *)
(* Raise(e), and every try/except of the code is a Catch in the model.     *)
(***************************************************************************)
EXTENDS Integers, Sequences, FiniteSets, TLC

VARIABLES
    named,          \* SpecNamer: the namer calls made so far, <<owner, bot, name>>
    collections,    \* the vector store: collection name -> bag of points
    qaCache,        \* st.cache_resource memo of get_cached_qa_chain
    last,           \* the latest operation on the store: arguments and outcome
    notReady,       \* the (owner, bot, prompt, temperature) that were answered
                    \* "Knowledge base not ready" while their namespace was absent
    session_state,  \* st.session_state of the one browser session
    chat_sessions,  \* the MongoDB chat_sessions collection (the logging sink)
    turn            \* what the latest run of main() did

vars == <<named, collections, qaCache, last, notReady, session_state, chat_sessions, turn>>

----------------------------------------------------------------------------
(* Bounds of the model *)

\* longest identifier the namer is tried on
MaxIdLen == 2
\* namer calls recorded in SpecNamer
MaxNamerCalls == 2
\* points one collection holds at most
MaxPoints == 1
\* distinct keys the retrieval-handle memo holds at most
MaxCached == 1
\* user turns of one chat session
MaxTurns == 2
\* documents in one list given to format_source_documents
MaxSources == 2

(* Program constants *)

\* search_kwargs={"k": 5}
TopK == 5
\* doc.page_content[:200]
ExcerptLen == 200
\* response.status_code == 200
HTTP_OK == 200

----------------------------------------------------------------------------
(* Python values *)

None == [type |-> "NoneType"]

\* a list where the code may also hold None (a JSON array or null)
PyList(items) == [type |-> "list", items |-> items]

Return(v) == [kind |-> "return", value |-> v]
Raise(e)  == [kind |-> "raise", error |-> e]

\* dict.get(key, default)
Get(d, key, default) == IF key \in DOMAIN d THEN d[key] ELSE default

----------------------------------------------------------------------------
(* Text: a str is a TLA+ string; Chars gives the characters of the texts   *)
(* the code inspects (lower(), "in", startswith, basename, slicing).       *)

Chars(s) ==
    CASE s = "timeout"
         -> <<"t", "i", "m", "e", "o", "u", "t">>
      [] s = "rate limit"
         -> <<"r", "a", "t", "e", " ", "l", "i", "m", "i", "t">>
      [] s = "api key"
         -> <<"a", "p", "i", " ", "k", "e", "y">>
      [] s = "Knowledge base not ready. Please add documents first."
         -> <<"K", "n", "o", "w", "l", "e", "d", "g", "e", " ", "b", "a", "s", "e", " ", "n", "o", "t", " ", "r", "e", "a", "d", "y", ".", " ", "P", "l", "e", "a", "s", "e", " ", "a", "d", "d", " ", "d", "o", "c", "u", "m", "e", "n", "t", "s", " ", "f", "i", "r", "s", "t", ".">>
      [] s = "Sorry, I encountered an issue processing your question. Please try again."
         -> <<"S", "o", "r", "r", "y", ",", " ", "I", " ", "e", "n", "c", "o", "u", "n", "t", "e", "r", "e", "d", " ", "a", "n", " ", "i", "s", "s", "u", "e", " ", "p", "r", "o", "c", "e", "s", "s", "i", "n", "g", " ", "y", "o", "u", "r", " ", "q", "u", "e", "s", "t", "i", "o", "n", ".", " ", "P", "l", "e", "a", "s", "e", " ", "t", "r", "y", " ", "a", "g", "a", "i", "n", ".">>
      [] s = "Request timed out. Please try a shorter question."
         -> <<"R", "e", "q", "u", "e", "s", "t", " ", "t", "i", "m", "e", "d", " ", "o", "u", "t", ".", " ", "P", "l", "e", "a", "s", "e", " ", "t", "r", "y", " ", "a", " ", "s", "h", "o", "r", "t", "e", "r", " ", "q", "u", "e", "s", "t", "i", "o", "n", ".">>
      [] s = "Rate limit exceeded. Please wait a moment and try again."
         -> <<"R", "a", "t", "e", " ", "l", "i", "m", "i", "t", " ", "e", "x", "c", "e", "e", "d", "e", "d", ".", " ", "P", "l", "e", "a", "s", "e", " ", "w", "a", "i", "t", " ", "a", " ", "m", "o", "m", "e", "n", "t", " ", "a", "n", "d", " ", "t", "r", "y", " ", "a", "g", "a", "i", "n", ".">>
      [] s = "API configuration issue. Please check your settings."
         -> <<"A", "P", "I", " ", "c", "o", "n", "f", "i", "g", "u", "r", "a", "t", "i", "o", "n", " ", "i", "s", "s", "u", "e", ".", " ", "P", "l", "e", "a", "s", "e", " ", "c", "h", "e", "c", "k", " ", "y", "o", "u", "r", " ", "s", "e", "t", "t", "i", "n", "g", "s", ".">>
      [] s = "GROQ_API_KEY not found"
         -> <<"G", "R", "O", "Q", "_", "A", "P", "I", "_", "K", "E", "Y", " ", "n", "o", "t", " ", "f", "o", "u", "n", "d">>
      [] s = "Connection Timeout"
         -> <<"C", "o", "n", "n", "e", "c", "t", "i", "o", "n", " ", "T", "i", "m", "e", "o", "u", "t">>
      [] s = "Request timed out."
         -> <<"R", "e", "q", "u", "e", "s", "t", " ", "t", "i", "m", "e", "d", " ", "o", "u", "t", ".">>
      [] s = "Error code: 429 - Rate limit reached"
         -> <<"E", "r", "r", "o", "r", " ", "c", "o", "d", "e", ":", " ", "4", "2", "9", " ", "-", " ", "R", "a", "t", "e", " ", "l", "i", "m", "i", "t", " ", "r", "e", "a", "c", "h", "e", "d">>
      [] s = "rate limit hit after timeout"
         -> <<"r", "a", "t", "e", " ", "l", "i", "m", "i", "t", " ", "h", "i", "t", " ", "a", "f", "t", "e", "r", " ", "t", "i", "m", "e", "o", "u", "t">>
      [] s = "Invalid API Key"
         -> <<"I", "n", "v", "a", "l", "i", "d", " ", "A", "P", "I", " ", "K", "e", "y">>
      [] s = "api key rate limit"
         -> <<"a", "p", "i", " ", "k", "e", "y", " ", "r", "a", "t", "e", " ", "l", "i", "m", "i", "t">>
      [] s = "Not found: Collection doesn't exist"
         -> <<"N", "o", "t", " ", "f", "o", "u", "n", "d", ":", " ", "C", "o", "l", "l", "e", "c", "t", "i", "o", "n", " ", "d", "o", "e", "s", "n", "'", "t", " ", "e", "x", "i", "s", "t">>
      [] s = "'NoneType' object is not iterable"
         -> <<"'", "N", "o", "n", "e", "T", "y", "p", "e", "'", " ", "o", "b", "j", "e", "c", "t", " ", "i", "s", " ", "n", "o", "t", " ", "i", "t", "e", "r", "a", "b", "l", "e">>
      [] s = "/data/manuals/policy.pdf"
         -> <<"/", "d", "a", "t", "a", "/", "m", "a", "n", "u", "a", "l", "s", "/", "p", "o", "l", "i", "c", "y", ".", "p", "d", "f">>
      [] s = "https://example.com/doc"
         -> <<"h", "t", "t", "p", "s", ":", "/", "/", "e", "x", "a", "m", "p", "l", "e", ".", "c", "o", "m", "/", "d", "o", "c">>
      [] s = "Unknown"
         -> <<"U", "n", "k", "n", "o", "w", "n">>
      [] s = "Refunds take 5 days."
         -> <<"R", "e", "f", "u", "n", "d", "s", " ", "t", "a", "k", "e", " ", "5", " ", "d", "a", "y", "s", ".">>
      [] s = "See the docs online."
         -> <<"S", "e", "e", " ", "t", "h", "e", " ", "d", "o", "c", "s", " ", "o", "n", "l", "i", "n", "e", ".">>
      [] s = "/data/manuals/guide.pdf"
         -> <<"/", "d", "a", "t", "a", "/", "m", "a", "n", "u", "a", "l", "s", "/", "g", "u", "i", "d", "e", ".", "p", "d", "f">>
      [] s = "policy.pdf"
         -> <<"p", "o", "l", "i", "c", "y", ".", "p", "d", "f">>
      [] s = "http://example.com/a"
         -> <<"h", "t", "t", "p", ":", "/", "/", "e", "x", "a", "m", "p", "l", "e", ".", "c", "o", "m", "/", "a">>
      [] s = "HTTPS://EXAMPLE.COM/Doc"
         -> <<"H", "T", "T", "P", "S", ":", "/", "/", "E", "X", "A", "M", "P", "L", "E", ".", "C", "O", "M", "/", "D", "o", "c">>
      [] s = "data/manuals/"
         -> <<"d", "a", "t", "a", "/", "m", "a", "n", "u", "a", "l", "s", "/">>
      [] s = ""
         -> <<>>

\* every text Chars knows
Texts == {"timeout",
          "rate limit",
          "api key",
          "Knowledge base not ready. Please add documents first.",
          "Sorry, I encountered an issue processing your question. Please try again.",
          "Request timed out. Please try a shorter question.",
          "Rate limit exceeded. Please wait a moment and try again.",
          "API configuration issue. Please check your settings.",
          "GROQ_API_KEY not found",
          "Connection Timeout",
          "Request timed out.",
          "Error code: 429 - Rate limit reached",
          "rate limit hit after timeout",
          "Invalid API Key",
          "api key rate limit",
          "Not found: Collection doesn't exist",
          "'NoneType' object is not iterable",
          "/data/manuals/policy.pdf",
          "https://example.com/doc",
          "Unknown",
          "Refunds take 5 days.",
          "See the docs online.",
          "/data/manuals/guide.pdf",
          "policy.pdf",
          "http://example.com/a",
          "HTTPS://EXAMPLE.COM/Doc",
          "data/manuals/",
          ""}

Uppers == <<"A","B","C","D","E","F","G","H","I","J","K","L","M",
            "N","O","P","Q","R","S","T","U","V","W","X","Y","Z">>
Lowers == <<"a","b","c","d","e","f","g","h","i","j","k","l","m",
            "n","o","p","q","r","s","t","u","v","w","x","y","z">>

LowerChar(c) ==
    IF \E i \in 1..Len(Uppers) : Uppers[i] = c
    THEN Lowers[CHOOSE i \in 1..Len(Uppers) : Uppers[i] = c]
    ELSE c

\* the characters of the texts of the model, and their lower case
Alphabet == UNION {{Chars(s)[i] : i \in 1..Len(Chars(s))} : s \in Texts}
LowerTable == [c \in Alphabet |-> LowerChar(c)]

\* str.lower()
Lower(cs) == [i \in 1..Len(cs) |-> LowerTable[cs[i]]]

\* needle in hay
Contains(hay, needle) ==
    \E i \in 0..(Len(hay) - Len(needle)) : SubSeq(hay, i + 1, i + Len(needle)) = needle

\* str.startswith(prefix)
StartsWith(cs, prefix) ==
    Len(cs) >= Len(prefix) /\ SubSeq(cs, 1, Len(prefix)) = prefix

\* the path is kept whole
Basename_whole_path(cs) == cs

\* os.path.basename: what follows the last "/"
Basename(cs) ==
    LET slashes == {i \in 1..Len(cs) : cs[i] = "/"}
        cut     == IF slashes = {} THEN 0
                   ELSE CHOOSE i \in slashes : \A j \in slashes : j <= i
    IN  SubSeq(cs, cut + 1, Len(cs))

----------------------------------------------------------------------------
(* Tenant collection namer *)

\* f"chatbot_{user_id}_{bot_id}"; identifiers are sequences of characters
get_bot_collection_name(user_id, bot_id) ==
    <<"c","h","a","t","b","o","t","_">> \o user_id \o <<"_">> \o bot_id

\* the identifiers the namer is tried on: the separator is a legal character
IdAlphabet == {"a", "_"}

RECURSIVE SeqsUpTo(_, _)
SeqsUpTo(S, n) ==
    IF n = 0 THEN {<<>>}
    ELSE LET shorter == SeqsUpTo(S, n - 1)
         IN  shorter \cup {Append(s, c) : s \in {x \in shorter : Len(x) = n - 1}, c \in S}

Ids == SeqsUpTo(IdAlphabet, MaxIdLen) \ {<<>>}

NameCall ==
    /\ Len(named) < MaxNamerCalls
    /\ \E user_id \in Ids, bot_id \in Ids :
          named' = Append(named, <<user_id, bot_id, get_bot_collection_name(user_id, bot_id)>>)
    /\ UNCHANGED <<collections, qaCache, last, notReady, session_state, chat_sessions, turn>>

----------------------------------------------------------------------------
(* Documents, points and the remote vector store *)

\* a chunk with a stored page, and one without
DocPdf == [page_content |-> "Refunds take 5 days.",
           metadata |-> [source |-> "/data/manuals/policy.pdf", page |-> 2,
                         source_type |-> "pdf", source_id |-> "1"]]
DocWeb == [page_content |-> "See the docs online.",
           metadata |-> [source |-> "https://example.com/doc",
                         source_type |-> "web", source_id |-> "2"]]

Docs == {DocPdf, DocWeb}
DocOrder == <<DocPdf, DocWeb>>

\* documents a retriever can hand to format_source_documents: langchain
\* Documents, whose page_content is a str and whose metadata is a dict
DocFirstPage == [page_content |-> "Refunds take 5 days.",
                 metadata |-> [source |-> "/data/manuals/guide.pdf", page |-> 0]]
DocBare == [page_content |-> "Refunds take 5 days.",
            metadata |-> [source |-> "policy.pdf", page |-> 2]]
DocHttp == [page_content |-> "See the docs online.",
            metadata |-> [source |-> "http://example.com/a"]]
DocUpperScheme == [page_content |-> "See the docs online.",
                   metadata |-> [source |-> "HTTPS://EXAMPLE.COM/Doc"]]
DocDir == [page_content |-> "See the docs online.",
           metadata |-> [source |-> "data/manuals/"]]
DocEmptySource == [page_content |-> "Refunds take 5 days.",
                   metadata |-> [source |-> "", page |-> 0]]
DocNoSource == [page_content |-> "Refunds take 5 days.",
                metadata |-> [page |-> 2]]
DocWebPage == [page_content |-> "See the docs online.",
               metadata |-> [source |-> "https://example.com/doc", page |-> 0]]

FormatDocs == Docs \cup {DocFirstPage, DocBare, DocHttp, DocUpperScheme, DocDir,
                         DocEmptySource, DocNoSource, DocWebPage}

\* the points of a collection: how many copies of each chunk it holds
\* (an upsert does not deduplicate)
EmptyBag == [d \in Docs |-> 0]

RECURSIVE BagSizeOver(_, _)
BagSizeOver(bag, S) ==
    IF S = {} THEN 0
    ELSE LET d == CHOOSE x \in S : TRUE IN bag[d] + BagSizeOver(bag, S \ {d})

BagSize(bag) == BagSizeOver(bag, Docs)

RECURSIVE Copies(_, _)
Copies(d, n) == IF n = 0 THEN <<>> ELSE <<d>> \o Copies(d, n - 1)

RECURSIVE PointsFrom(_, _)
PointsFrom(bag, i) ==
    IF i > Len(DocOrder) THEN <<>>
    ELSE Copies(DocOrder[i], bag[DocOrder[i]]) \o PointsFrom(bag, i + 1)

\* the points of a collection as the list a search ranks them in
Points(bag) == PointsFrom(bag, 1)

Take(s, k) == SubSeq(s, 1, IF Len(s) < k THEN Len(s) ELSE k)

RECURSIVE AddAll(_, _)
AddAll(bag, documents) ==
    IF documents = <<>> THEN bag
    ELSE AddAll([bag EXCEPT ![Head(documents)] = @ + 1], Tail(documents))

Drop(cols, name) == [n \in DOMAIN cols \ {name} |-> cols[n]]

(* Faults the environment injects into one call: at most one collaborator  *)
(* fails, at the point "at", with the description "text". A call stops at  *)
(* its first failure, so one fault per call covers every failure pattern.  *)
NoFault == [at |-> "none", text |-> ""]
FaultAt(point) == [at |-> point, text |-> ""]

\* get_qdrant_client() / client.get_collection(collection_name=...)
client_get_collection(cols, name, fault) ==
    IF fault.at = "store" THEN Raise("Connection Timeout")
    ELSE IF name \notin DOMAIN cols THEN Raise("Not found: Collection doesn't exist")
    ELSE Return([points_count |-> BagSize(cols[name])])

\* client.delete_collection: dropping an absent collection is answered
\* result=false by the store, not an error
client_delete_collection(cols, name, fault) ==
    IF fault.at = "store"
    THEN [outcome |-> Raise("Connection Timeout"), collections |-> cols]
    ELSE [outcome |-> Return(name \in DOMAIN cols), collections |-> Drop(cols, name)]

\* client.delete(collection_name, points_selector=Filter(must=[...]))
client_delete(cols, name, matching, fault) ==
    IF fault.at = "store"
    THEN [outcome |-> Raise("Connection Timeout"), collections |-> cols]
    ELSE IF name \notin DOMAIN cols
    THEN [outcome |-> Raise("Not found: Collection doesn't exist"), collections |-> cols]
    ELSE [outcome |-> Return(None),
          collections |-> [cols EXCEPT ![name] =
                              [d \in Docs |-> IF d \in matching THEN 0 ELSE @[d]]]]

\* vector_store.add_documents(documents): embed and upsert
vector_store_add_documents(cols, vector_store, documents, fault) ==
    IF fault.at = "upsert" \/ vector_store.collection_name \notin DOMAIN cols
    THEN [outcome |-> Raise("Connection Timeout"), collections |-> cols]
    ELSE [outcome |-> Return(None),
          collections |-> [cols EXCEPT ![vector_store.collection_name] =
                              AddAll(@, documents)]]

----------------------------------------------------------------------------
(* vector_store.py: the gateway and the knowledge-base mutation API *)

get_vector_store(cols, user_id, bot_id, fault) ==
    LET collection_name == get_bot_collection_name(user_id, bot_id) IN
    IF fault.at = "qdrant_config" THEN Raise("Qdrant Cloud not configured")
    ELSE IF client_get_collection(cols, collection_name, fault).kind = "raise"
    THEN Return(None)
    ELSE IF fault.at = "embedding" THEN Return(None)
    ELSE Return([type |-> "Qdrant", collection_name |-> collection_name])

\* a gateway that creates the collection it does not find
store_after_get_vector_store_creating(cols, user_id, bot_id) ==
    IF get_bot_collection_name(user_id, bot_id) \in DOMAIN cols THEN cols
    ELSE (get_bot_collection_name(user_id, bot_id) :> EmptyBag) @@ cols

\* the store after get_vector_store: client.get_collection only reads and
\* Qdrant(client=..., collection_name=..., embeddings=...) sends nothing
store_after_get_vector_store(cols, user_id, bot_id) == cols

\* the store after vector_store.similarity_search / the retriever's search
store_after_similarity_search(cols, collection_name) == cols

\* an except clause that lets the exception through
ReturnFalse_reraise(r) == r

\* the except clause of a mutation operation: print and return False
ReturnFalse(r) ==
    IF r.outcome.kind = "raise" THEN [r EXCEPT !.outcome = Return(FALSE)] ELSE r

add_documents_to_bot_try(cols, user_id, bot_id, documents, fault) ==
    LET vector_store == get_vector_store(cols, user_id, bot_id, fault) IN
    IF vector_store.kind = "raise"
    THEN [outcome |-> vector_store, collections |-> cols]
    ELSE IF vector_store.value # None
    THEN LET added == vector_store_add_documents(cols, vector_store.value, documents, fault)
         IN  IF added.outcome.kind = "raise" THEN added
             ELSE [added EXCEPT !.outcome = Return(TRUE)]
    ELSE [outcome |-> Return(FALSE), collections |-> cols]

add_documents_to_bot(cols, user_id, bot_id, documents, fault) ==
    ReturnFalse(add_documents_to_bot_try(cols, user_id, bot_id, documents, fault))

clear_bot_knowledge_try(cols, user_id, bot_id, fault) ==
    LET dropped == client_delete_collection(cols, get_bot_collection_name(user_id, bot_id), fault)
    IN  IF dropped.outcome.kind = "raise" THEN dropped
        ELSE [dropped EXCEPT !.outcome = Return(TRUE)]

clear_bot_knowledge(cols, user_id, bot_id, fault) ==
    ReturnFalse(clear_bot_knowledge_try(cols, user_id, bot_id, fault))

\* str(source_id)
Str(source_id) == CASE source_id = 1 -> "1" [] source_id = 2 -> "2"

MatchSource(source_type, source_id, d) ==
    /\ "source_type" \in DOMAIN d.metadata
    /\ d.metadata.source_type = source_type
    /\ "source_id" \in DOMAIN d.metadata
    /\ d.metadata.source_id = Str(source_id)

remove_documents_by_source_try(cols, user_id, bot_id, source_type, source_id, fault) ==
    LET matching == {d \in Docs : MatchSource(source_type, source_id, d)}
        deleted  == client_delete(cols, get_bot_collection_name(user_id, bot_id), matching, fault)
    IN  IF deleted.outcome.kind = "raise" THEN deleted
        ELSE [deleted EXCEPT !.outcome = Return(TRUE)]

remove_documents_by_source(cols, user_id, bot_id, source_type, source_id, fault) ==
    ReturnFalse(remove_documents_by_source_try(cols, user_id, bot_id, source_type, source_id, fault))

MatchFilename(filename, d) ==
    "source" \in DOMAIN d.metadata /\ d.metadata.source = filename

remove_documents_by_filename_try(cols, user_id, bot_id, filename, fault) ==
    LET matching == {d \in Docs : MatchFilename(filename, d)}
        deleted  == client_delete(cols, get_bot_collection_name(user_id, bot_id), matching, fault)
    IN  IF deleted.outcome.kind = "raise" THEN deleted
        ELSE [deleted EXCEPT !.outcome = Return(TRUE)]

remove_documents_by_filename(cols, user_id, bot_id, filename, fault) ==
    ReturnFalse(remove_documents_by_filename_try(cols, user_id, bot_id, filename, fault))

check_collection_exists(cols, user_id, bot_id, fault) ==
    IF client_get_collection(cols, get_bot_collection_name(user_id, bot_id), fault).kind = "raise"
    THEN FALSE
    ELSE TRUE

\* the default of the parameter k of search_similar_documents
DefaultK == 4

search_similar_documents_try(cols, user_id, bot_id, query, k, fault) ==
    LET vector_store == get_vector_store(cols, user_id, bot_id, fault)
        after_get    == IF fault.at = "qdrant_config" THEN cols
                        ELSE store_after_get_vector_store(cols, user_id, bot_id)
    IN  IF vector_store.kind = "raise"
        THEN [outcome |-> vector_store, collections |-> after_get]
        ELSE IF vector_store.value = None
        THEN [outcome |-> Return(<<>>), collections |-> after_get]
        ELSE IF fault.at = "search" \/ vector_store.value.collection_name \notin DOMAIN after_get
        THEN [outcome |-> Raise("Connection Timeout"), collections |-> after_get]
        ELSE [outcome |-> Return(Take(Points(after_get[vector_store.value.collection_name]), k)),
              collections |-> store_after_similarity_search(
                                  after_get, vector_store.value.collection_name)]

\* except Exception: print and return []
search_similar_documents(cols, user_id, bot_id, query, k, fault) ==
    LET r == search_similar_documents_try(cols, user_id, bot_id, query, k, fault) IN
    IF r.outcome.kind = "raise" THEN [r EXCEPT !.outcome = Return(<<>>)] ELSE r

----------------------------------------------------------------------------
(* query_processor.py: the retrieval handle and the query pipeline *)

KB_NOT_READY   == "Knowledge base not ready. Please add documents first."
MSG_PROCESSING == "Sorry, I encountered an issue processing your question. Please try again."
MSG_TIMEOUT    == "Request timed out. Please try a shorter question."
MSG_RATE_LIMIT == "Rate limit exceeded. Please wait a moment and try again."
MSG_API_KEY    == "API configuration issue. Please check your settings."

\* config.validate_api_key()
validate_api_key(fault) ==
    IF fault.at = "api_key" THEN Raise("GROQ_API_KEY not found") ELSE Return("gsk_key")

\* the body of get_cached_qa_chain: None when the vector store is None or
\* when anything raises while the chain is assembled
build_qa_chain(cols, groq_api_key, user_id, bot_id, system_prompt, temperature, fault) ==
    LET db == get_vector_store(cols, user_id, bot_id, fault) IN
    IF db.kind = "raise" THEN None
    ELSE IF db.value = None THEN None
    ELSE IF fault.at \in {"prompt_template", "llm_init"} THEN None
    ELSE [type |-> "RetrievalQA",
          collection_name |-> db.value.collection_name,
          system_prompt |-> system_prompt,
          temperature |-> temperature,
          groq_api_key |-> groq_api_key,
          k |-> TopK]

\* a memo keyed by the tenant alone
CacheKey_tenant_only(groq_api_key, user_id, bot_id, system_prompt, temperature) ==
    <<groq_api_key, user_id, bot_id>>

\* the key st.cache_resource memoizes get_cached_qa_chain by: all its arguments
CacheKey(groq_api_key, user_id, bot_id, system_prompt, temperature) ==
    <<groq_api_key, user_id, bot_id, system_prompt, temperature>>

\* @st.cache_resource: the stored return value (None included) is reused
get_cached_qa_chain(cache, cols, groq_api_key, user_id, bot_id, system_prompt, temperature, fault) ==
    LET key == CacheKey(groq_api_key, user_id, bot_id, system_prompt, temperature) IN
    IF key \in DOMAIN cache
    THEN [value |-> cache[key], qaCache |-> cache, built |-> FALSE]
    ELSE LET qa_chain == build_qa_chain(cols, groq_api_key, user_id, bot_id,
                                        system_prompt, temperature, fault)
         IN  [value |-> qa_chain, qaCache |-> (key :> qa_chain) @@ cache, built |-> TRUE]

\* the answer of the completion host
Answer == "Refunds are processed within 5 business days."

\* qa_chain.invoke({'query': query}): one similarity search on the collection
\* the handle was bound to, then one completion request
qa_chain_invoke(qa_chain, cols, query, fault) ==
    IF fault.at = "search"
    THEN [outcome |-> Raise(fault.text), searches |-> 1, completions |-> 0]
    ELSE IF qa_chain.collection_name \notin DOMAIN cols
    THEN [outcome |-> Raise("Not found: Collection doesn't exist"),
          searches |-> 1, completions |-> 0]
    ELSE IF fault.at = "completion"
    THEN [outcome |-> Raise(fault.text), searches |-> 1, completions |-> 1]
    ELSE [outcome |-> Return([result |-> Answer,
                              source_documents |->
                                  Take(Points(cols[qa_chain.collection_name]), qa_chain.k)]),
          searches |-> 1, completions |-> 1]

\* the page is shown as it is stored
page_display_as_stored(metadata) == Get(metadata, "page", "N/A")

\* page_num = metadata.get('page', 'N/A'), made 1-indexed when it is an int.
\* A stored page is an integer, so isinstance(page_num, int) holds exactly
\* when the metadata has a page.
page_display(metadata) ==
    LET has_page == "page" \in DOMAIN metadata
        page_num == Get(metadata, "page", "N/A")
    IN  IF has_page THEN page_num + 1 ELSE page_num

\* one pass of the loop of format_source_documents. Nothing in it raises for
\* a Document, so the except clause that skips a document is never entered.
format_source(doc) ==
    LET metadata == doc.metadata
        source   == Get(metadata, "source", "Unknown")
        is_web   == \/ StartsWith(Chars(source), <<"h","t","t","p",":","/","/">>)
                    \/ StartsWith(Chars(source), <<"h","t","t","p","s",":","/","/">>)
        content  == Chars(doc.page_content)
    IN  [document |-> IF is_web THEN Chars(source)
                      ELSE IF source # "" THEN Basename(Chars(source))
                      ELSE Chars("Unknown"),
         page     |-> page_display(metadata),
         excerpt  |-> IF Len(content) > ExcerptLen
                      THEN SubSeq(content, 1, ExcerptLen) \o <<".", ".", ".">>
                      ELSE content,
         type     |-> IF is_web THEN "web" ELSE "pdf"]

FormattedSources == [doc \in FormatDocs |-> format_source(doc)]

format_source_documents(source_documents) ==
    [i \in 1..Len(source_documents) |-> FormattedSources[source_documents[i]]]

\* the rate-limit test made before the timeout test
ErrorMessage_rate_first(e) ==
    LET text == Lower(Chars(e)) IN
    IF Contains(text, Chars("rate limit")) THEN MSG_RATE_LIMIT
    ELSE IF Contains(text, Chars("timeout")) THEN MSG_TIMEOUT
    ELSE IF Contains(text, Chars("api key")) THEN MSG_API_KEY
    ELSE MSG_PROCESSING

\* the except clause of process_bot_query: the message for an error description
ErrorMessage(e) ==
    LET text == Lower(Chars(e)) IN
    IF Contains(text, Chars("timeout")) THEN MSG_TIMEOUT
    ELSE IF Contains(text, Chars("rate limit")) THEN MSG_RATE_LIMIT
    ELSE IF Contains(text, Chars("api key")) THEN MSG_API_KEY
    ELSE MSG_PROCESSING

\* the descriptions of the errors that reach the except clause
ErrTexts == {"Connection Timeout", "Request timed out.",
             "Error code: 429 - Rate limit reached", "rate limit hit after timeout",
             "Invalid API Key", "api key rate limit",
             "'NoneType' object is not iterable"}
RaisedTexts == ErrTexts \cup {"GROQ_API_KEY not found", "Not found: Collection doesn't exist"}

ErrorMessages == [e \in RaisedTexts |-> ErrorMessage(e)]

\* no except clause around the body of process_bot_query
process_bot_query_reraise(outcome) == outcome

process_bot_query_except(outcome) ==
    IF outcome.kind = "raise"
    THEN Return([success |-> FALSE, error |-> ErrorMessages[outcome.error]])
    ELSE outcome

process_bot_query_try(cache, cols, user_id, bot_id, query, system_prompt, temperature, fault) ==
    LET groq_api_key == validate_api_key(fault) IN
    IF groq_api_key.kind = "raise"
    THEN [outcome |-> groq_api_key, qaCache |-> cache, built |-> FALSE,
          searches |-> 0, completions |-> 0, collections |-> cols]
    ELSE
    LET cached == get_cached_qa_chain(cache, cols, groq_api_key.value, user_id, bot_id,
                                      system_prompt, temperature, fault)
        \* building the chain calls get_vector_store, unless the
        \* configuration check raises before the store is contacted
        after_build == IF cached.built /\ fault.at # "qdrant_config"
                       THEN store_after_get_vector_store(cols, user_id, bot_id)
                       ELSE cols
    IN
    IF cached.value = None
    THEN [outcome |-> Return([success |-> FALSE, error |-> KB_NOT_READY]),
          qaCache |-> cached.qaCache, built |-> cached.built,
          searches |-> 0, completions |-> 0, collections |-> after_build]
    ELSE
    LET response == qa_chain_invoke(cached.value, after_build, query, fault) IN
    [outcome |-> IF response.outcome.kind = "raise" THEN response.outcome
                 ELSE Return([success |-> TRUE,
                              answer  |-> Get(response.outcome.value, "result",
                                              "No answer generated."),
                              sources |-> format_source_documents(
                                              Get(response.outcome.value,
                                                  "source_documents", <<>>))]),
     qaCache |-> cached.qaCache, built |-> cached.built,
     searches |-> response.searches, completions |-> response.completions,
     collections |-> store_after_similarity_search(after_build,
                                                   cached.value.collection_name)]

process_bot_query(cache, cols, user_id, bot_id, query, system_prompt, temperature, fault) ==
    LET r == process_bot_query_try(cache, cols, user_id, bot_id, query,
                                   system_prompt, temperature, fault)
    IN  [r EXCEPT !.outcome = process_bot_query_except(@)]

----------------------------------------------------------------------------
(* app.py: the public chat page *)

APOLOGY_HTTP   == "I apologize, but I'm having trouble generating a response right now. Please try again."
APOLOGY_ERROR  == "I'm experiencing technical difficulties. Please try again in a moment."
QUERY_ERROR    == "Sorry, I encountered an error processing your question."
CHAT_ERROR     == "I apologize, but I'm having trouble accessing my knowledge base right now. Please try again in a moment."
DEFAULT_WELCOME == "Hello! I'm here to help answer your questions based on my knowledge base. What would you like to know?"

\* the chatbots collection of the configuration store, by bot_id
U_B == <<"u", "_", "b">>
B   == <<"b">>
X   == <<"x">>
Z   == <<"z">>

BotConfigs ==
    (U_B :> [bot_id |-> U_B, name |-> "Refund desk", welcome_message |-> "Welcome!",
             system_prompt |-> "Answer briefly.", temperature |-> 0, is_active |-> TRUE])
    @@ (B :> [bot_id |-> B, name |-> "Helper"])
    @@ (X :> [bot_id |-> X, name |-> "Retired", is_active |-> FALSE])

get_bot_config(bot_id, fault) ==
    IF fault.at = "mongo_config" THEN Raise("ServerSelectionTimeoutError")
    ELSE IF bot_id \in DOMAIN BotConfigs THEN Return(BotConfigs[bot_id])
    ELSE Return(None)

\* POST {QDRANT_URL}/collections/chatbot_{bot_id}/points/search, limit 5
search_response(cols, bot_id, fault) ==
    LET name == <<"c","h","a","t","b","o","t","_">> \o bot_id IN
    IF fault.at = "search_http" THEN Raise("Connection Timeout")
    ELSE IF fault.at = "search_null" THEN Return([status_code |-> HTTP_OK, json |-> [result |-> None]])
    ELSE IF name \notin DOMAIN cols THEN Return([status_code |-> 404, json |-> [status |-> "error"]])
    ELSE LET hits == Take(Points(cols[name]), 5)
         IN  Return([status_code |-> HTTP_OK,
                     json |-> [result |-> PyList([i \in 1..Len(hits) |->
                                                           [payload |-> hits[i]]])]])

get_vector_search_results(cols, bot_id, query, fault) ==
    LET response == search_response(cols, bot_id, fault) IN
    IF response.kind = "raise" THEN PyList(<<>>)
    ELSE IF response.value.status_code = HTTP_OK
    THEN Get(response.value.json, "result", PyList(<<>>))
    ELSE PyList(<<>>)

\* POST https://api.groq.com/openai/v1/chat/completions
generate_ai_response(query, context, bot_config, fault) ==
    IF fault.at = "completion" THEN APOLOGY_ERROR
    ELSE IF fault.at = "completion_status" THEN APOLOGY_HTTP
    ELSE Answer

\* len(search_results)
PyLen(x) == IF x.type = "list" THEN Return(Len(x.items))
            ELSE Raise("object of type 'NoneType' has no len()")

process_user_query_except(outcome) ==
    IF outcome.kind = "raise"
    THEN Return([success |-> FALSE, response |-> QUERY_ERROR, sources_used |-> 0])
    ELSE outcome

process_user_query_try(cols, bot_id, query, bot_config, fault) ==
    LET search_results == get_vector_search_results(cols, bot_id, query, fault)
        response       == generate_ai_response(query, search_results, bot_config, fault)
        sources_used   == PyLen(search_results)
    IN  IF sources_used.kind = "raise" THEN sources_used
        ELSE Return([success |-> TRUE, response |-> response,
                     sources_used |-> sources_used.value])

process_user_query(cols, bot_id, query, bot_config, fault) ==
    process_user_query_except(process_user_query_try(cols, bot_id, query, bot_config, fault))

\* a logger that lets the exception through
log_chat_session_reraise(r) == r

\* the except clause of log_chat_session: print, return nothing
log_chat_session_except(r) ==
    IF r.outcome.kind = "raise" THEN [r EXCEPT !.outcome = Return(None)] ELSE r

log_chat_session_try(sink, bot_id, user_message, bot_response, fault) ==
    IF fault.at = "mongo_connect"
    THEN [outcome |-> Raise("ServerSelectionTimeoutError"), chat_sessions |-> sink]
    ELSE IF fault.at = "mongo_insert"
    THEN [outcome |-> Raise("WriteError"), chat_sessions |-> sink]
    ELSE [outcome |-> Return(None),
          chat_sessions |-> Append(sink, [bot_id |-> bot_id, user_message |-> user_message,
                                          bot_response |-> bot_response,
                                          source |-> "public_chat"])]

log_chat_session(sink, bot_id, user_message, bot_response, fault) ==
    log_chat_session_except(log_chat_session_try(sink, bot_id, user_message, bot_response, fault))

\* one run of main(): the page is re-run for every interaction. bot_id is the
\* query parameter (<<>> when missing), prompt what st.chat_input returned
\* ("" when the user typed nothing).
Stopped(ss, sink, why) ==
    [session_state |-> ss, chat_sessions |-> sink,
     turn |-> [kind |-> why, escaped |-> (why = "raised")]]

\* an error branch that shows the error without appending it
append_error_shown_only(messages) == messages

\* the else branch of the chat loop: show the error, append it to the history
append_error(messages) == Append(messages, [role |-> "assistant", content |-> CHAT_ERROR])

chat_turn(ss, sink, cols, bot_id, prompt, bot_config, fault) ==
    LET asked  == Append(ss.messages, [role |-> "user", content |-> prompt])
        result == process_user_query(cols, bot_id, prompt, bot_config, fault)
    IN
    IF result.kind = "raise"
    THEN [session_state |-> [ss EXCEPT !.messages = asked], chat_sessions |-> sink,
          turn |-> [kind |-> "turn", escaped |-> TRUE, prompt |-> prompt,
                    pipelineCalls |-> 1, logged |-> "skipped"]]
    ELSE IF result.value.success
    THEN LET answered == Append(asked, [role |-> "assistant",
                                        content |-> result.value.response])
             logged   == log_chat_session(sink, bot_id, prompt, result.value.response, fault)
         IN  [session_state |-> [ss EXCEPT !.messages = answered],
              chat_sessions |-> logged.chat_sessions,
              turn |-> [kind |-> "turn", escaped |-> (logged.outcome.kind = "raise"),
                        prompt |-> prompt, pipelineCalls |-> 1, result |-> result.value,
                        logged |-> IF fault.at \in {"mongo_connect", "mongo_insert"}
                                   THEN "failed" ELSE "stored"]]
    ELSE [session_state |-> [ss EXCEPT !.messages = append_error(asked)],
          chat_sessions |-> sink,
          turn |-> [kind |-> "turn", escaped |-> FALSE, prompt |-> prompt,
                    pipelineCalls |-> 1, result |-> result.value, logged |-> "skipped"]]

main(ss, sink, cols, bot_id, prompt, fault) ==
    IF bot_id = <<>> THEN Stopped(ss, sink, "no_bot")
    ELSE
    LET bot_config == get_bot_config(bot_id, fault) IN
    IF bot_config.kind = "raise" THEN Stopped(ss, sink, "raised")
    ELSE IF bot_config.value = None THEN Stopped(ss, sink, "not_found")
    ELSE IF ~Get(bot_config.value, "is_active", TRUE) THEN Stopped(ss, sink, "inactive")
    ELSE
    LET welcome_msg == Get(bot_config.value, "welcome_message", DEFAULT_WELCOME)
        ss1 == IF "messages" \notin DOMAIN ss
               THEN [messages |-> <<[role |-> "assistant", content |-> welcome_msg]>>]
               ELSE ss
    IN  IF prompt = ""
        THEN [session_state |-> ss1, chat_sessions |-> sink,
              turn |-> [kind |-> "idle", escaped |-> FALSE]]
        ELSE chat_turn(ss1, sink, cols, bot_id, prompt, bot_config.value, fault)

----------------------------------------------------------------------------
(* Inputs *)

U   == <<"u">>
B_B == <<"b", "_", "b">>

\* (user_id, bot_id) of the tenants; the last two share one collection name
Tenants == {<<U, B>>, <<U, B_B>>, <<U_B, B>>}

CollectionNames == {get_bot_collection_name(t[1], t[2]) : t \in Tenants}

\* bot_id query parameters of the chat page (<<>>: none given)
UrlBotIds == {<<>>, U_B, B, X, Z}

\* (system_prompt, temperature) of the queries; temperatures are in tenths
QueryParams == {<<"You are a helpful assistant.", 7>>,
                <<"Answer briefly.", 7>>,
                <<"You are a helpful assistant.", 0>>}
Queries == {"How long do refunds take?"}
\* what st.chat_input returns ("": nothing typed)
UserInputs == {"", "How long do refunds take?"}

DocBatches == {<<>>} \cup {<<d>> : d \in Docs}
SourceTypes == {"pdf", "web"}
SourceIds == {1, 2}
Filenames == {"/data/manuals/policy.pdf", "notes.txt"}

StoreFaults == {NoFault, FaultAt("store")}
AddFaults == {NoFault} \cup {FaultAt(p) : p \in {"qdrant_config", "store", "embedding", "upsert"}}
BuildFaults == {FaultAt(p) : p \in {"qdrant_config", "store", "embedding",
                                    "prompt_template", "llm_init"}}
InvokeFaults == {[at |-> "search", text |-> "Connection Timeout"]}
                \cup {[at |-> "completion", text |-> e] : e \in ErrTexts}
QueryFaults == {NoFault, FaultAt("api_key")} \cup BuildFaults \cup InvokeFaults
\* one fault for each point a query can fail at: what the call leaves in the
\* memo depends on the point, not on the description
QueryFaultPoints == {NoFault, FaultAt("api_key")} \cup BuildFaults
                    \cup {[at |-> p, text |-> "Connection Timeout"] : p \in {"search", "completion"}}
SearchFaults == {NoFault} \cup {FaultAt(p) : p \in {"qdrant_config", "store", "embedding", "search"}}
UserQueryFaults ==
    {NoFault}
    \cup {FaultAt(p) : p \in {"search_http", "search_null", "completion", "completion_status"}}
PageFaults ==
    UserQueryFaults \cup {FaultAt(p) : p \in {"mongo_config", "mongo_connect", "mongo_insert"}}

----------------------------------------------------------------------------
(* The state machine *)

Init ==
    /\ named = <<>>
    /\ collections = <<>>
    /\ qaCache = <<>>
    /\ last = [op |-> "none"]
    /\ notReady = {}
    /\ session_state = <<>>
    /\ chat_sessions = <<>>
    /\ turn = [kind |-> "none", escaped |-> FALSE]

\* the builder application creates a tenant's collection in the shared store
ExternalCreateCollection ==
    \E name \in CollectionNames :
        /\ name \notin DOMAIN collections
        /\ collections' = (name :> EmptyBag) @@ collections
        /\ last' = [op |-> "builder"]
        /\ UNCHANGED <<named, qaCache, notReady, session_state, chat_sessions, turn>>

\* the builder application publishes a bot: its collection with a first chunk
BuilderPublish ==
    \E name \in CollectionNames, d \in Docs :
        /\ name \notin DOMAIN collections
        /\ collections' = (name :> [EmptyBag EXCEPT ![d] = 1]) @@ collections
        /\ last' = [op |-> "builder"]
        /\ UNCHANGED <<named, qaCache, notReady, session_state, chat_sessions, turn>>

Exists(cols, user_id, bot_id) == get_bot_collection_name(user_id, bot_id) \in DOMAIN cols

Room(user_id, bot_id, n) ==
    Exists(collections, user_id, bot_id) =>
        BagSize(collections[get_bot_collection_name(user_id, bot_id)]) + n <= MaxPoints

AddDocumentsToBot ==
    \E t \in Tenants, documents \in DocBatches, fault \in AddFaults :
        LET r == add_documents_to_bot(collections, t[1], t[2], documents, fault) IN
        /\ Room(t[1], t[2], Len(documents))
        /\ collections' = r.collections
        /\ last' = [op |-> "add_documents_to_bot", user_id |-> t[1], bot_id |-> t[2],
                    documents |-> documents, fault |-> fault,
                    nsExisted |-> Exists(collections, t[1], t[2]), outcome |-> r.outcome]
        /\ UNCHANGED <<named, qaCache, notReady, session_state, chat_sessions, turn>>

ClearBotKnowledge ==
    \E t \in Tenants, fault \in StoreFaults :
        LET r == clear_bot_knowledge(collections, t[1], t[2], fault) IN
        /\ collections' = r.collections
        /\ last' = [op |-> "clear_bot_knowledge", user_id |-> t[1], bot_id |-> t[2],
                    outcome |-> r.outcome]
        /\ UNCHANGED <<named, qaCache, notReady, session_state, chat_sessions, turn>>

RemoveDocumentsBySource ==
    \E t \in Tenants, source_type \in SourceTypes, source_id \in SourceIds, fault \in StoreFaults :
        LET r == remove_documents_by_source(collections, t[1], t[2], source_type, source_id, fault) IN
        /\ collections' = r.collections
        /\ last' = [op |-> "remove_documents_by_source", user_id |-> t[1], bot_id |-> t[2],
                    source_type |-> source_type, source_id |-> source_id, fault |-> fault,
                    nsExisted |-> Exists(collections, t[1], t[2]), outcome |-> r.outcome]
        /\ UNCHANGED <<named, qaCache, notReady, session_state, chat_sessions, turn>>

RemoveDocumentsByFilename ==
    \E t \in Tenants, filename \in Filenames, fault \in StoreFaults :
        LET r == remove_documents_by_filename(collections, t[1], t[2], filename, fault) IN
        /\ collections' = r.collections
        /\ last' = [op |-> "remove_documents_by_filename", user_id |-> t[1], bot_id |-> t[2],
                    filename |-> filename, fault |-> fault,
                    nsExisted |-> Exists(collections, t[1], t[2]), outcome |-> r.outcome]
        /\ UNCHANGED <<named, qaCache, notReady, session_state, chat_sessions, turn>>

NotReadyResult == Return([success |-> FALSE, error |-> KB_NOT_READY])

\* one call of process_bot_query: it leaves the store alone and may add one
\* entry to the memo
ProcessBotQuery ==
    \E t \in Tenants, query \in Queries, p \in QueryParams, fault \in QueryFaultPoints :
        LET system_prompt == p[1]
            temperature   == p[2]
            r == process_bot_query(qaCache, collections, t[1], t[2], query,
                                   system_prompt, temperature, fault)
        IN
        /\ Cardinality(DOMAIN r.qaCache) <= MaxCached
        /\ qaCache' = r.qaCache
        /\ notReady' =
              IF ~Exists(collections, t[1], t[2]) /\ r.outcome = NotReadyResult
              THEN notReady \cup {<<t[1], t[2], system_prompt, temperature>>}
              ELSE notReady
        /\ collections' = r.collections
        /\ UNCHANGED <<named, last, session_state, chat_sessions, turn>>

\* one call of search_similar_documents with the default k
SearchSimilarDocuments ==
    \E t \in Tenants, query \in Queries, fault \in SearchFaults :
        LET r == search_similar_documents(collections, t[1], t[2], query, DefaultK, fault) IN
        /\ collections' = r.collections
        /\ UNCHANGED <<named, qaCache, last, notReady, session_state, chat_sessions, turn>>

\* one call of process_user_query: two HTTP requests, no state of its own
ProcessUserQuery ==
    \E bot_id \in DOMAIN BotConfigs, query \in Queries, fault \in UserQueryFaults :
        /\ process_user_query(collections, bot_id, query, BotConfigs[bot_id], fault).kind
               \in {"return", "raise"}
        /\ UNCHANGED vars

Turns == IF "messages" \in DOMAIN session_state
         THEN (Len(session_state.messages) - 1) \div 2
         ELSE 0

MainRun ==
    \E bot_id \in UrlBotIds, prompt \in UserInputs, fault \in PageFaults :
        LET r == main(session_state, chat_sessions, collections, bot_id, prompt, fault) IN
        /\ prompt # "" => Turns < MaxTurns
        /\ session_state' = r.session_state
        /\ chat_sessions' = r.chat_sessions
        /\ turn' = r.turn
        /\ UNCHANGED <<named, collections, qaCache, last, notReady>>

Next ==
    \/ ExternalCreateCollection
    \/ BuilderPublish
    \/ ClearBotKnowledge
    \/ ProcessBotQuery
    \/ ProcessUserQuery

\* the query pipeline over a store the builder fills and clears
Spec == Init /\ [][Next]_vars

NextRetrieval ==
    \/ ExternalCreateCollection
    \/ BuilderPublish
    \/ ClearBotKnowledge
    \/ ProcessBotQuery
    \/ SearchSimilarDocuments

\* the two functions that query the store, process_bot_query and
\* search_similar_documents, over a store the builder fills and clears
SpecRetrieval == Init /\ [][NextRetrieval]_vars

NextStore ==
    \/ ExternalCreateCollection
    \/ AddDocumentsToBot
    \/ ClearBotKnowledge
    \/ RemoveDocumentsBySource
    \/ RemoveDocumentsByFilename

\* the knowledge-base mutation API
SpecStore == Init /\ [][NextStore]_vars

NextChat ==
    \/ BuilderPublish
    \/ MainRun

\* the chat page over a store the builder fills
SpecChat == Init /\ [][NextChat]_vars

\* the namer alone, over every pair of identifiers up to MaxIdLen
SpecNamer == Init /\ [][NameCall]_vars

\* one call of format_source_documents on a list of retrieved documents
FormatSourceDocuments ==
    \E source_documents \in SeqsUpTo(FormatDocs, MaxSources) :
        /\ last' = [op |-> "format_source_documents",
                    source_documents |-> source_documents,
                    formatted |-> format_source_documents(source_documents)]
        /\ UNCHANGED <<named, collections, qaCache, notReady, session_state,
                       chat_sessions, turn>>

\* the citation formatter alone, over every list of up to MaxSources documents
SpecFormat == Init /\ [][FormatSourceDocuments]_vars

----------------------------------------------------------------------------
(* Properties.  A property of an entry point is stated for every call that *)
(* can be made in a reachable state: the call is evaluated on the state's  *)
(* store and memo.                                                         *)

\* process_bot_query called now, with healthy collaborators unless a fault is given
Query(t, p, fault) ==
    process_bot_query(qaCache, collections, t[1], t[2], "How long do refunds take?",
                      p[1], p[2], fault)
QueryBody(t, p, fault) ==
    process_bot_query_try(qaCache, collections, t[1], t[2], "How long do refunds take?",
                          p[1], p[2], fault)

\* the memo holds a built handle for this tenant and these parameters
HandleCached(t, p) ==
    /\ CacheKey("gsk_key", t[1], t[2], p[1], p[2]) \in DOMAIN qaCache
    /\ qaCache[CacheKey("gsk_key", t[1], t[2], p[1], p[2])] # None

(* C1: the namer is deterministic and injective over (owner, bot): two     *)
(* calls give the same name exactly when both the owner and the bot are    *)
(* the same, also for identifiers that contain the separator.              *)
C1_NamerInjective ==
    \A i, j \in 1..Len(named) :
        (named[i][1] = named[j][1] /\ named[i][2] = named[j][2])
            <=> (named[i][3] = named[j][3])

(* C2: a query for a tenant whose namespace does not exist at the time of  *)
(* the call returns the KnowledgeBaseNotReady failure and issues neither a *)
(* similarity search nor a completion request (stated for calls in which   *)
(* no collaborator fails).                                                 *)
C2_AbsentNamespaceNotReady ==
    \A t \in Tenants, p \in QueryParams :
        ~Exists(collections, t[1], t[2]) =>
            /\ Query(t, p, NoFault).outcome = NotReadyResult
            /\ Query(t, p, NoFault).searches = 0
            /\ Query(t, p, NoFault).completions = 0

(* C3: once clear_bot_knowledge(owner, bot) has succeeded and nothing has  *)
(* touched the store since, a query for the same (owner, bot) returns the  *)
(* KnowledgeBaseNotReady failure, whatever was queried before the clear.   *)
C3_ClearThenQueryNotReady ==
    (last.op = "clear_bot_knowledge" /\ last.outcome = Return(TRUE)) =>
        \A p \in QueryParams :
            Query(<<last.user_id, last.bot_id>>, p, NoFault).outcome = NotReadyResult

(* C4: KnowledgeBaseNotReady is recoverable by ingestion: when a query was *)
(* answered KnowledgeBaseNotReady because the namespace was absent and the *)
(* namespace has since been created and populated, a query with the same   *)
(* (owner, bot, system_prompt, temperature) is no longer answered          *)
(* KnowledgeBaseNotReady.                                                  *)
C4_NotReadyRecovers ==
    \A k \in notReady :
        LET name == get_bot_collection_name(k[1], k[2]) IN
        (name \in DOMAIN collections /\ BagSize(collections[name]) > 0) =>
            Query(<<k[1], k[2]>>, <<k[3], k[4]>>, NoFault).outcome # NotReadyResult

\* the message the claim assigns to an error description
ClaimedMessage(e) ==
    LET text == Lower(Chars(e))
        timeout    == Contains(text, <<"t","i","m","e","o","u","t">>)
        rate_limit == Contains(text, <<"r","a","t","e"," ","l","i","m","i","t">>)
        api_key    == Contains(text, <<"a","p","i"," ","k","e","y">>)
    IN  CASE timeout -> "Request timed out. Please try a shorter question."
          [] ~timeout /\ rate_limit
                -> "Rate limit exceeded. Please wait a moment and try again."
          [] ~timeout /\ ~rate_limit /\ api_key
                -> "API configuration issue. Please check your settings."
          [] OTHER -> "Sorry, I encountered an issue processing your question. Please try again."

ClaimedMessages == [e \in RaisedTexts |-> ClaimedMessage(e)]

\* the fixed messages and, for each, the error descriptions that occur in it
FixedMessages == {MSG_TIMEOUT, MSG_RATE_LIMIT, MSG_API_KEY, MSG_PROCESSING}
Leaked == [m \in FixedMessages |-> {e \in RaisedTexts : Contains(Chars(m), Chars(e))}]

(* C5: when the body of process_bot_query raises (the secret lookup, the   *)
(* chain invocation or the formatting), the call returns a failure whose   *)
(* message is the fixed string for the first indicator the error           *)
(* description contains, in the order timeout, rate limit, api key, else   *)
(* the generic one; the error description is not part of that message.     *)
C5_ErrorMessageByOrder ==
    \A t \in Tenants, p \in QueryParams, fault \in QueryFaults :
        LET body   == QueryBody(t, p, fault).outcome
            result == Query(t, p, fault).outcome
        IN  body.kind = "raise" =>
                /\ result = Return([success |-> FALSE, error |-> ClaimedMessages[body.error]])
                /\ result.value.error \in FixedMessages
                /\ body.error \notin Leaked[result.value.error]

\* a handle is cached and a completion error naming both a rate limit and a
\* timeout is answered with the timeout message
C5_Witness ==
    \E t \in Tenants, p \in QueryParams :
        LET fault == [at |-> "completion", text |-> "rate limit hit after timeout"] IN
        /\ HandleCached(t, p)
        /\ QueryBody(t, p, fault).outcome = Raise("rate limit hit after timeout")
        /\ Query(t, p, fault).outcome = Return([success |-> FALSE, error |-> MSG_TIMEOUT])

BotQueryResultOk(outcome) ==
    /\ outcome.kind = "return"
    /\ \/ /\ DOMAIN outcome.value = {"success", "answer", "sources"}
          /\ outcome.value.success = TRUE
       \/ /\ DOMAIN outcome.value = {"success", "error"}
          /\ outcome.value.success = FALSE

UserQueryResultOk(outcome) ==
    /\ outcome.kind = "return"
    /\ DOMAIN outcome.value = {"success", "response", "sources_used"}
    /\ outcome.value.success \in BOOLEAN

(* C6: no exception escapes the pipeline entry points: for every input and *)
(* every failure of a collaborator, process_bot_query and                  *)
(* process_user_query return a result record with a success flag.          *)
C6_NoExceptionEscapes ==
    /\ \A t \in Tenants, p \in QueryParams, fault \in QueryFaults :
          BotQueryResultOk(Query(t, p, fault).outcome)
    /\ \A bot_id \in DOMAIN BotConfigs, query \in Queries, fault \in PageFaults :
          UserQueryResultOk(process_user_query(collections, bot_id, query,
                                               BotConfigs[bot_id], fault))

\* with a handle cached, a failing completion host and a malformed search
\* answer both come back as failure records
C6_Witness ==
    /\ \E t \in Tenants, p \in QueryParams :
          /\ HandleCached(t, p)
          /\ QueryBody(t, p, [at |-> "completion", text |-> "Connection Timeout"]).outcome.kind
                 = "raise"
          /\ Query(t, p, [at |-> "completion", text |-> "Connection Timeout"]).outcome.value.success
                 = FALSE
    /\ process_user_query_try(collections, U_B, "How long do refunds take?",
                              BotConfigs[U_B], FaultAt("search_null")).kind = "raise"

Messages == session_state.messages

Alternating(messages) ==
    /\ Len(messages) % 2 = 1
    /\ \A i \in 1..Len(messages) :
          messages[i].role = IF i % 2 = 0 THEN "user" ELSE "assistant"

(* C7: every user turn of the chat loop appends exactly one user entry     *)
(* followed by exactly one assistant entry, whether the pipeline succeeds  *)
(* or fails, so the history is the welcome message followed by strictly    *)
(* alternating user and assistant entries.                                 *)
C7_TurnAppendsPair ==
    [][ (turn'.kind = "turn" /\ session_state' # session_state) =>
            LET before == IF "messages" \in DOMAIN session_state
                          THEN session_state.messages
                          ELSE SubSeq(session_state'.messages, 1, 1)
                after  == session_state'.messages
            IN  /\ Len(after) = Len(before) + 2
                /\ SubSeq(after, 1, Len(before)) = before
                /\ after[Len(after) - 1] = [role |-> "user", content |-> turn'.prompt]
                /\ after[Len(after)].role = "assistant"
                /\ Alternating(after) ]_vars

\* a second turn whose pipeline call failed left the error as the
\* assistant's entry
C7_Witness ==
    /\ turn.kind = "turn"
    /\ turn.result.success = FALSE
    /\ Len(Messages) = 5
    /\ Messages[5] = [role |-> "assistant", content |-> CHAT_ERROR]
    /\ Messages[4].role = "user"

(* C8: a failure of log_chat_session never changes the answer appended to  *)
(* the history for that turn, never raises into the chat loop and never    *)
(* has the pipeline called again for that turn.                            *)
C8_LogFailureHarmless ==
    (turn.kind = "turn" /\ turn.logged = "failed") =>
        /\ ~turn.escaped
        /\ turn.pipelineCalls = 1
        /\ Messages[Len(Messages)] = [role |-> "assistant", content |-> turn.result.response]
        /\ Messages[Len(Messages) - 1] = [role |-> "user", content |-> turn.prompt]

\* a turn was answered by the completion host and the insert into the log failed
C8_Witness ==
    /\ turn.kind = "turn"
    /\ turn.logged = "failed"
    /\ turn.result.success
    /\ Messages[Len(Messages)].content = Answer

IsBoolean(outcome) == outcome.kind = "return" /\ outcome.value \in BOOLEAN

\* no point of the tenant's collection satisfies the filter
NoneMatches(t, matching) ==
    \A d \in Docs : collections[get_bot_collection_name(t[1], t[2])][d] > 0 => d \notin matching

(* C9: every knowledge-base mutation operation returns a boolean and never *)
(* raises; when there is nothing to do (no point of the collection matches *)
(* the filter, or the namespace is already absent for clear) it returns    *)
(* True and leaves the store as it was.                                    *)
C9_MutationsReturnBooleans ==
    /\ \A t \in Tenants, documents \in DocBatches, fault \in AddFaults :
          IsBoolean(add_documents_to_bot(collections, t[1], t[2], documents, fault).outcome)
    /\ \A t \in Tenants, fault \in StoreFaults :
          LET r == clear_bot_knowledge(collections, t[1], t[2], fault) IN
          /\ IsBoolean(r.outcome)
          /\ (fault = NoFault /\ ~Exists(collections, t[1], t[2])) =>
                 (r.outcome.value = TRUE /\ r.collections = collections)
    /\ \A t \in Tenants, source_type \in SourceTypes, source_id \in SourceIds,
          fault \in StoreFaults :
          LET r == remove_documents_by_source(collections, t[1], t[2],
                                              source_type, source_id, fault)
              Match == {d \in Docs : d.metadata.source_type = source_type
                                       /\ d.metadata.source_id = Str(source_id)}
          IN
          /\ IsBoolean(r.outcome)
          /\ (fault = NoFault /\ Exists(collections, t[1], t[2]) /\ NoneMatches(t, Match)) =>
                 (r.outcome.value = TRUE /\ r.collections = collections)
    /\ \A t \in Tenants, filename \in Filenames, fault \in StoreFaults :
          LET r == remove_documents_by_filename(collections, t[1], t[2], filename, fault)
              Match == {d \in Docs : d.metadata.source = filename}
          IN
          /\ IsBoolean(r.outcome)
          /\ (fault = NoFault /\ Exists(collections, t[1], t[2]) /\ NoneMatches(t, Match)) =>
                 (r.outcome.value = TRUE /\ r.collections = collections)

\* a removal by a filename no point carries returned True and the
\* collection still holds its point
C9_Witness ==
    /\ last.op = "remove_documents_by_filename"
    /\ last.filename = "notes.txt"
    /\ last.fault = NoFault
    /\ last.outcome = Return(TRUE)
    /\ Exists(collections, last.user_id, last.bot_id)
    /\ BagSize(collections[get_bot_collection_name(last.user_id, last.bot_id)]) > 0

(* C10: a namespace is created lazily on first ingestion: after            *)
(* add_documents_to_bot(owner, bot, chunks) was called while the namespace *)
(* of (owner, bot) did not exist, the operation has reported success and   *)
(* check_collection_exists(owner, bot) is true.                            *)
C10_AddCreatesNamespace ==
    (last.op = "add_documents_to_bot" /\ ~last.nsExisted /\ last.fault = NoFault
        /\ last.documents # <<>>) =>
        /\ last.outcome = Return(TRUE)
        /\ check_collection_exists(collections, last.user_id, last.bot_id, NoFault)

(* C11: format_source_documents shows an integer stored page p as p + 1    *)
(* (stored 0 as 1, stored 2 as 3) and a document with no stored page as    *)
(* the sentinel "N/A"; the output has one citation per input document, in  *)
(* the input order.                                                        *)
C11_PageDisplay ==
    last.op = "format_source_documents" =>
        /\ Len(last.formatted) = Len(last.source_documents)
        /\ \A i \in 1..Len(last.source_documents) :
              LET doc      == last.source_documents[i]
                  citation == last.formatted[i]
              IN  /\ "page" \in DOMAIN doc.metadata =>
                         citation.page = doc.metadata.page + 1
                  /\ "page" \notin DOMAIN doc.metadata => citation.page = "N/A"
                  /\ citation.excerpt = Chars(doc.page_content)
                  /\ citation.document = format_source(doc).document

\* a list with a stored page 0 and then no stored page was formatted to the
\* pages 1 and "N/A"
C11_Witness ==
    /\ last.op = "format_source_documents"
    /\ last.source_documents = <<DocFirstPage, DocHttp>>
    /\ last.formatted[1].page = 1
    /\ last.formatted[2].page = "N/A"

\* name is the final path segment of source: what follows its last "/"
FinalSegment(source, name) ==
    /\ \A i \in 1..Len(name) : name[i] # "/"
    /\ Len(name) <= Len(source)
    /\ SubSeq(source, Len(source) - Len(name) + 1, Len(source)) = name
    /\ Len(name) < Len(source) => source[Len(source) - Len(name)] = "/"

(* C12: format_source_documents classifies each source: a source string    *)
(* beginning with http:// or https:// gives type web and the unchanged     *)
(* source as document name; every other (non-empty) source gives type pdf  *)
(* and only the final path segment of the source as document name.         *)
C12_SourceClassification ==
    last.op = "format_source_documents" =>
        \A i \in 1..Len(last.source_documents) :
            LET doc      == last.source_documents[i]
                citation == last.formatted[i]
                source   == Chars(doc.metadata.source)
                web      == \/ StartsWith(source, <<"h","t","t","p",":","/","/">>)
                            \/ StartsWith(source, <<"h","t","t","p","s",":","/","/">>)
            IN  ("source" \in DOMAIN doc.metadata /\ doc.metadata.source # "") =>
                    IF web
                    THEN citation.type = "web" /\ citation.document = source
                    ELSE citation.type = "pdf" /\ FinalSegment(source, citation.document)

\* "https://example.com/doc" was cited as web under its own name and
\* "/data/manuals/guide.pdf" as pdf under the name guide.pdf
C12_Witness ==
    /\ last.op = "format_source_documents"
    /\ last.source_documents = <<DocWeb, DocFirstPage>>
    /\ last.formatted[1].type = "web"
    /\ last.formatted[1].document = Chars("https://example.com/doc")
    /\ last.formatted[2].type = "pdf"
    /\ last.formatted[2].document = <<"g","u","i","d","e",".","p","d","f">>

(* C13: a backend failure is distinguished from an absent namespace: when  *)
(* the tenant's namespace exists and, during the query, the collection     *)
(* lookup fails (store unreachable or authentication rejected) or the      *)
(* embedding model or the prompt template cannot be built, the answer of   *)
(* process_bot_query is not the KnowledgeBaseNotReady failure.             *)
C13_BackendFailureDistinguished ==
    \A t \in Tenants, p \in QueryParams :
        \A fault \in {FaultAt("store"), FaultAt("embedding"), FaultAt("prompt_template")} :
            Exists(collections, t[1], t[2]) =>
                Query(t, p, fault).outcome # NotReadyResult

\* what get_cached_qa_chain hands to a query made now
Handle(t, p) ==
    get_cached_qa_chain(qaCache, collections, "gsk_key", t[1], t[2], p[1], p[2], NoFault)

\* the handle was built for this tenant and these parameters
BuiltFor(handle, t, p) ==
    /\ handle.collection_name = get_bot_collection_name(t[1], t[2])
    /\ handle.system_prompt = p[1]
    /\ handle.temperature = p[2]

(* C14: the retrieval handle is memoized by (owner_id, bot_id,             *)
(* system_prompt, temperature): after any sequence of queries, a call with *)
(* four values that were used before gets the memoized handle and builds   *)
(* nothing, and every call gets a handle that was built for its own four   *)
(* values, never one built for values that differ in any of them.          *)
C14_HandleMemoizedByKey ==
    \A t \in Tenants, p \in QueryParams :
        LET key == CacheKey("gsk_key", t[1], t[2], p[1], p[2]) IN
        /\ key \in DOMAIN qaCache =>
              /\ ~Handle(t, p).built
              /\ ~Query(t, p, NoFault).built
              /\ Handle(t, p).value = qaCache[key]
              /\ Query(t, p, NoFault).qaCache = qaCache
        /\ key \notin DOMAIN qaCache => Query(t, p, NoFault).built
        /\ Handle(t, p).value # None => BuiltFor(Handle(t, p).value, t, p)

\* a handle is memoized for one system prompt: the same call reuses it and
\* the call with another system prompt builds its own
C14_Witness ==
    \E t \in Tenants, p, other \in QueryParams :
        /\ HandleCached(t, p)
        /\ ~Query(t, p, NoFault).built
        /\ Query(t, p, NoFault).outcome.value.success
        /\ other[1] # p[1] /\ other[2] = p[2]
        /\ Query(t, other, NoFault).built
        /\ Handle(t, other).value # qaCache[CacheKey("gsk_key", t[1], t[2], p[1], p[2])]

(* C15: a query is read-only with respect to the vector store: whatever    *)
(* its outcome (success, KnowledgeBaseNotReady or error), a call of        *)
(* process_bot_query or of search_similar_documents leaves the set of      *)
(* namespaces and the points of every namespace as they were.              *)
C15_QueryReadOnly ==
    /\ \A t \in Tenants, p \in QueryParams, fault \in QueryFaults :
          Query(t, p, fault).collections = collections
    /\ \A t \in Tenants, query \in Queries, fault \in SearchFaults :
          search_similar_documents(collections, t[1], t[2], query, DefaultK, fault).collections
              = collections

\* one tenant's namespace holds a point and its handle is memoized, another
\* tenant has no namespace: a query succeeds with a citation, a search finds
\* the point, a query fails at the completion host and a query for the
\* other tenant is answered KnowledgeBaseNotReady
C15_Witness ==
    \E t, absent \in Tenants, p \in QueryParams :
        /\ HandleCached(t, p)
        /\ Query(t, p, NoFault).outcome.value.success
        /\ Len(Query(t, p, NoFault).outcome.value.sources) = 1
        /\ Len(search_similar_documents(collections, t[1], t[2], "How long do refunds take?",
                                        DefaultK, NoFault).outcome.value) = 1
        /\ Query(t, p, [at |-> "completion", text |-> "Connection Timeout"]).outcome
               = Return([success |-> FALSE, error |-> MSG_TIMEOUT])
        /\ ~Exists(collections, absent[1], absent[2])
        /\ Query(absent, p, NoFault).outcome = NotReadyResult

=============================================================================
